---- MODULE Spec2Model ----
(***************************************************************************)
(* A model of the two HTTP endpoints of the TikTok downloader:              *)
(*   api/download.py  GET /api/download?url=...   (extract, serve, delete)  *)
(*   api/tiktok.py    GET /api/tiktok?tiktok_url= (relay an upstream body)  *)
(* Strings that the code inspects (URLs, paths) are sequences of            *)
(* characters, a run of characters that no operation splits being one       *)
(* element.                                                                 *)
(***************************************************************************)
EXTENDS Integers, Sequences, FiniteSets, TLC

\* ------------------------------------------------------------------ bounds

\* Concurrent requests to the download endpoint.
NumReq == 2
\* Longest upstream body, in chunks, on the streaming endpoint.
MaxChunks == 3

Req == 1..NumReq

\* ----------------------------------------------------------------- strings

StartsWith(s, p) ==
    /\ Len(s) >= Len(p)
    /\ SubSeq(s, 1, Len(p)) = p

\* Positions of "/" in a path.
SlashPositions(p) == {i \in 1..Len(p) : p[i] = "/"}

Max(S) == CHOOSE x \in S : \A y \in S : y <= x

\* os.path.basename: what follows the last "/".
Basename(p) ==
    IF SlashPositions(p) = {} THEN p
    ELSE SubSeq(p, Max(SlashPositions(p)) + 1, Len(p))

\* os.path.join(directory, name) for a relative name and a directory that does
\* not end in "/".
PathJoin(d, n) == d \o <<"/">> \o n

\* The value of a variable that holds None (or an empty string: both are falsy).
NoPath == <<>>

\* ------------------------------------------------------ download.py: inputs

HttpPrefix == <<"h", "t", "t", "p", ":", "/", "/">>
HttpsPrefix == <<"h", "t", "t", "p", "s", ":", "/", "/">>

\* Values of the query parameter, the last element standing for the rest of
\* the URL.
UrlValues ==
    { HttpPrefix \o <<"a">>,
      HttpsPrefix \o <<"b">>,
      <<"f", "t", "p", ":", "/", "/", "a">>,
      <<"h", "t", "t", "p", ":", "/", "a">>,
      <<"H", "T", "T", "P", ":", "/", "/", "a">>,
      <<>> }

\* request.query_params: the parameter is present with a value, or absent.
Queries ==
    [present : {TRUE}, value : UrlValues] \cup {[present |-> FALSE, value |-> <<>>]}

NoQuery == [present |-> FALSE, value |-> <<>>]

\* `not url`: query_params.get('url') is None or the empty string.
UrlMissingEmptyOnly(q) == q.present /\ q.value = <<>>

UrlMissing(q) == ~q.present \/ q.value = <<>>

UrlWellFormedHttpOnly(u) == StartsWith(u, HttpPrefix)

\* url.startswith('http://') or url.startswith('https://')
UrlWellFormed(u) == StartsWith(u, HttpPrefix) \/ StartsWith(u, HttpsPrefix)

MsgRequired == "The 'url' query parameter is required."
MsgInvalid == "Invalid URL format. Must start with http:// or https://."
MsgUnexpected ==
    "An unexpected error occurred during the download process. Please check the provided URL."
\* The body of the server's own 500 (an exception that no handler caught).
MsgServerError == "Internal Server Error"

\* ------------------------------------------------------- download.py: paths

TEMP_DIR == <<"/", "t", "m", "p">>

\* Titles the platform may give a video; the extension is the "best" format's.
Titles == {"a", "b"}

\* temp_prefix, rendered by the extractor for a video: the output template
\* holds the title and the extension and nothing of the request.
RenderOuttmpl(title) == PathJoin(TEMP_DIR, <<"tiktok_dl_", title, ".mp4">>)

\* A directory outside the temporary directory, and a sibling of it whose name
\* begins with the temporary directory's name.
OtherDir == <<"/", "v">>
SiblingDir == TEMP_DIR \o <<"X">>

\* What info['filepath'] may hold when the post-processor runs, for a file
\* written at `actual`: nothing, the file's path, or the same name under
\* another directory.
ReportedPaths(actual) ==
    { NoPath, actual,
      PathJoin(OtherDir, Basename(actual)),
      PathJoin(SiblingDir, Basename(actual)) }

OutPaths == {RenderOuttmpl(t) : t \in Titles}

AllPaths == UNION {ReportedPaths(p) \ {NoPath} : p \in OutPaths}

\* FilenameCapturePP.run: the captured filename after a run with
\* info['filepath'] = reported, self.filename being None before.
CaptureRun(directory, reported) ==
    LET filename == IF reported # NoPath THEN reported ELSE NoPath
    IN  IF filename # NoPath /\ ~StartsWith(filename, directory)
        THEN PathJoin(directory, Basename(filename))
        ELSE filename

\* mimetypes.guess_type, by the extension.
GuessType(p) ==
    IF p # NoPath /\ p[Len(p)] = ".mp4" THEN "video/mp4" ELSE "none"

MimeType(p) ==
    IF GuessType(p) # "none" THEN GuessType(p) ELSE "application/octet-stream"

\* The text of the exception the extractor raises: yt-dlp's DownloadError (it
\* reports that the URL cannot be resolved) or an unexpected error.
ExcTexts == {"DownloadError", "OSError"}

\* -------------------------------------------------------- download.py: state

NoFile == <<>>

VARIABLES
    query,          \* [Req -> Queries]: the request's query parameters
    pc,             \* [Req -> position of the request]
    stage,          \* [Req -> position of the worker thread in perform_download]
    outPath,        \* [Req -> the path the extractor wrote for the request]
    worker,         \* [Req -> what perform_download returned or raised]
    final_filepath, \* [Req -> the handler's local variable]
    resp,           \* [Req -> the response the handler produced]
    client,         \* [Req -> what the client has received]
    fs,             \* [AllPaths -> contents of the file (<<writer>>), or NoFile]
    extractorCalls, \* [Req -> calls of perform_download]
    removed,        \* [Req -> sequence of <<path, contents>> the handler deleted]
    removeFailed    \* [Req -> os.remove raised in the handler]

dvars == <<query, pc, stage, outPath, worker, final_filepath, resp, client, fs,
           extractorCalls, removed, removeFailed>>

\* The streaming endpoint (tiktok.py) holds one request.
VARIABLES
    s_query,      \* the request's tiktok_url parameter
    s_pc,         \* position of the request
    s_resp,       \* the StreamingResponse the handler returned
    gen,          \* state of the generator get_video_stream(url)
    gen_error,    \* the exception that left the generator
    upstream,     \* the upstream's answer: status and body
    pulled,       \* chunks read from the upstream so far
    upstream_open,\* the upstream response (connection) is open
    upstream_gets,\* GETs sent to the upstream
    get_calls,    \* calls of requests.get
    inflight,     \* chunks yielded by the generator and not yet sent on
    s_client      \* what the client has received

svars == <<s_query, s_pc, s_resp, gen, gen_error, upstream, pulled,
           upstream_open, upstream_gets, get_calls, inflight, s_client>>

\* content: the contents of the file at `path` when perform_download returned.
NoWorker == [kind |-> "none", path |-> NoPath, text |-> <<>>, content |-> NoFile]
NoResp == [status |-> 0, detail |-> "", path |-> NoPath, media_type |-> "",
           disposition |-> <<>>]
NoClient == [status |-> 0, detail |-> "", disposition |-> <<>>, body |-> NoFile,
             transfer |-> "none"]

DInit ==
    /\ query = [r \in Req |-> NoQuery]
    /\ pc = [r \in Req |-> "idle"]
    /\ stage = [r \in Req |-> "none"]
    /\ outPath = [r \in Req |-> NoPath]
    /\ worker = [r \in Req |-> NoWorker]
    /\ final_filepath = [r \in Req |-> NoPath]
    /\ resp = [r \in Req |-> NoResp]
    /\ client = [r \in Req |-> NoClient]
    /\ fs = [p \in AllPaths |-> NoFile]
    /\ extractorCalls = [r \in Req |-> 0]
    /\ removed = [r \in Req |-> <<>>]
    /\ removeFailed = [r \in Req |-> FALSE]

Exists(p) == p \in AllPaths /\ fs[p] # NoFile

\* An HTTPException raised by the handler: the framework answers with the
\* status and {"detail": ...}.
ErrorResponse(code, msg) ==
    [status |-> code, detail |-> msg, disposition |-> <<>>, body |-> NoFile,
     transfer |-> "error"]

\* A call that would run perform_download on the event loop's own thread.
run_on_loop(r) == "loop"

\* run_in_threadpool: the thread that runs perform_download for request r,
\* a thread of the loop's default executor.
run_in_threadpool(r) == "executor"

\* The event loop's thread is inside a blocking call: no coroutine (handler
\* or response) makes a step until the call returns.
LoopBusy ==
    \E r \in Req : /\ run_in_threadpool(r) = "loop"
                   /\ pc[r] = "extracting" /\ stage[r] # "finished"

\* download_video up to the await: the two checks of the parameter, then the
\* call of perform_download is handed to the thread pool.
DownloadVideoStart(r, q) ==
    /\ ~LoopBusy
    /\ pc[r] = "idle"
    /\ query' = [query EXCEPT ![r] = q]
    /\ IF UrlMissing(q)
       THEN /\ client' = [client EXCEPT ![r] = ErrorResponse(400, MsgRequired)]
            /\ pc' = [pc EXCEPT ![r] = "done"]
            /\ UNCHANGED <<stage, extractorCalls>>
       ELSE IF ~UrlWellFormed(q.value)
       THEN /\ client' = [client EXCEPT ![r] = ErrorResponse(400, MsgInvalid)]
            /\ pc' = [pc EXCEPT ![r] = "done"]
            /\ UNCHANGED <<stage, extractorCalls>>
       ELSE /\ pc' = [pc EXCEPT ![r] = "extracting"]
            /\ stage' = [stage EXCEPT ![r] = "started"]
            /\ extractorCalls' = [extractorCalls EXCEPT ![r] = @ + 1]
            /\ UNCHANGED client
    /\ UNCHANGED <<outPath, worker, final_filepath, resp, fs, removed, removeFailed>>
    /\ UNCHANGED svars

\* ydl.download, first part: the extractor resolves the video and writes its
\* output file at the rendered template (the download may still be under way).
ExtractorWrite(r, title) ==
    /\ pc[r] = "extracting" /\ stage[r] = "started"
    /\ LET p == RenderOuttmpl(title)
       IN  /\ fs' = [fs EXCEPT ![p] = <<r>>]
           /\ outPath' = [outPath EXCEPT ![r] = p]
    /\ stage' = [stage EXCEPT ![r] = "wrote"]
    /\ UNCHANGED <<query, pc, worker, final_filepath, resp, client,
                   extractorCalls, removed, removeFailed>>
    /\ UNCHANGED svars

\* ydl.download writes its output file in a directory other than the one of
\* the template: the case the check of FilenameCapturePP.run is there for.
ExtractorWriteElsewhere(r, title, dir) ==
    /\ pc[r] = "extracting" /\ stage[r] = "started"
    /\ LET p == PathJoin(dir, Basename(RenderOuttmpl(title)))
       IN  /\ fs' = [fs EXCEPT ![p] = <<r>>]
           /\ outPath' = [outPath EXCEPT ![r] = p]
    /\ stage' = [stage EXCEPT ![r] = "wrote"]
    /\ UNCHANGED <<query, pc, worker, final_filepath, resp, client,
                   extractorCalls, removed, removeFailed>>
    /\ UNCHANGED svars

\* ydl.download raises (before it wrote a file, or after it wrote one partly or
\* fully): perform_download
\* re-raises as Exception("Failed to download URL. Detail: ...").
ExtractorRaise(r, text) ==
    /\ pc[r] = "extracting" /\ stage[r] \in {"started", "wrote"}
    /\ stage' = [stage EXCEPT ![r] = "finished"]
    /\ worker' = [worker EXCEPT ![r] =
                    [kind |-> "raised", path |-> NoPath,
                     text |-> <<"Failed to download URL. Detail: ", text>>,
                     content |-> NoFile]]
    /\ UNCHANGED <<query, pc, outPath, final_filepath, resp, client, fs,
                   extractorCalls, removed, removeFailed>>
    /\ UNCHANGED svars

\* ydl.download returns: the post-processor has run with info['filepath'] (or
\* not at all when nothing was downloaded), then lines 87-92 check the path.
\* kind "notfound": the Exception of line 90, re-raised at line 97.
PerformDownloadReturn(r, reported) ==
    /\ pc[r] = "extracting"
    /\ \/ stage[r] = "started" /\ reported = NoPath
       \/ /\ stage[r] = "wrote"
          /\ reported \in ReportedPaths(outPath[r])
    /\ LET captured == CaptureRun(TEMP_DIR, reported)
       IN  worker' = [worker EXCEPT ![r] =
              IF captured = NoPath \/ ~Exists(captured)
              THEN [kind |-> "notfound", path |-> NoPath,
                    text |-> <<"Failed to download URL. Detail: ", "NotFound">>,
                    content |-> NoFile]
              ELSE [kind |-> "returned", path |-> captured, text |-> <<>>,
                    content |-> fs[captured]]]
    /\ stage' = [stage EXCEPT ![r] = "finished"]
    /\ UNCHANGED <<query, pc, outPath, final_filepath, resp, client, fs,
                   extractorCalls, removed, removeFailed>>
    /\ UNCHANGED svars

\* A handler that would answer a missing output file with 404.
DownloadVideoResumeNotFound404(r, rmOk) ==
    /\ pc[r] = "extracting" /\ stage[r] = "finished"
    /\ IF worker[r].kind = "returned"
       THEN LET p == worker[r].path
                base_filename == Basename(p)
            IN  /\ final_filepath' = [final_filepath EXCEPT ![r] = p]
                /\ resp' = [resp EXCEPT ![r] =
                      [status |-> 200, detail |-> "", path |-> p,
                       media_type |-> MimeType(p),
                       disposition |-> <<"attachment; filename=", base_filename>>]]
                /\ pc' = [pc EXCEPT ![r] = "responding"]
                /\ client' = [client EXCEPT ![r].transfer = "pending"]
                /\ IF Exists(p)
                   THEN IF rmOk
                        THEN /\ fs' = [fs EXCEPT ![p] = NoFile]
                             /\ removed' = [removed EXCEPT ![r] = Append(@, <<p, fs[p]>>)]
                             /\ UNCHANGED removeFailed
                        ELSE /\ removeFailed' = [removeFailed EXCEPT ![r] = TRUE]
                             /\ UNCHANGED <<fs, removed>>
                   ELSE UNCHANGED <<fs, removed, removeFailed>>
                /\ UNCHANGED worker
       ELSE /\ rmOk
            /\ client' = [client EXCEPT ![r] =
                  ErrorResponse(IF worker[r].kind = "notfound" THEN 404 ELSE 500,
                                MsgUnexpected)]
            /\ pc' = [pc EXCEPT ![r] = "done"]
            /\ worker' = [worker EXCEPT ![r].text = <<>>]
            /\ UNCHANGED <<final_filepath, resp, fs, removed, removeFailed>>
    /\ UNCHANGED <<query, stage, outPath, extractorCalls>>
    /\ UNCHANGED svars

\* download_video from the await on: the worker's result arrives, the handler
\* builds the FileResponse or raises the 500, and the finally block runs
\* before the handler returns. rmOk: whether os.remove succeeds. The exception
\* caught at line 153 is printed and dropped.
DownloadVideoResume(r, rmOk) ==
    /\ ~LoopBusy
    /\ pc[r] = "extracting" /\ stage[r] = "finished"
    /\ IF worker[r].kind = "returned"
       THEN LET p == worker[r].path
                base_filename == Basename(p)
            IN  /\ final_filepath' = [final_filepath EXCEPT ![r] = p]
                /\ resp' = [resp EXCEPT ![r] =
                      [status |-> 200, detail |-> "", path |-> p,
                       media_type |-> MimeType(p),
                       disposition |-> <<"attachment; filename=", base_filename>>]]
                /\ pc' = [pc EXCEPT ![r] = "responding"]
                /\ client' = [client EXCEPT ![r].transfer = "pending"]
                /\ IF Exists(p)
                   THEN IF rmOk
                        THEN /\ fs' = [fs EXCEPT ![p] = NoFile]
                             /\ removed' = [removed EXCEPT ![r] = Append(@, <<p, fs[p]>>)]
                             /\ UNCHANGED removeFailed
                        ELSE /\ removeFailed' = [removeFailed EXCEPT ![r] = TRUE]
                             /\ UNCHANGED <<fs, removed>>
                   ELSE UNCHANGED <<fs, removed, removeFailed>>
                /\ UNCHANGED worker
       ELSE /\ rmOk
            /\ client' = [client EXCEPT ![r] = ErrorResponse(500, MsgUnexpected)]
            /\ pc' = [pc EXCEPT ![r] = "done"]
            /\ worker' = [worker EXCEPT ![r].text = <<>>]
            /\ UNCHANGED <<final_filepath, resp, fs, removed, removeFailed>>
    /\ UNCHANGED <<query, stage, outPath, extractorCalls>>
    /\ UNCHANGED svars

\* The server starts to send the FileResponse the handler returned: it stats
\* the path; a missing file is an exception nothing handles, answered by the
\* server's own 500, otherwise the status line and the headers go out.
SendStart(r) ==
    /\ ~LoopBusy
    /\ pc[r] = "responding"
    /\ IF Exists(resp[r].path)
       THEN /\ client' = [client EXCEPT ![r].status = resp[r].status,
                                         ![r].disposition = resp[r].disposition,
                                         ![r].transfer = "headers"]
            /\ pc' = [pc EXCEPT ![r] = "sending"]
       ELSE /\ client' = [client EXCEPT ![r] = ErrorResponse(500, MsgServerError)]
            /\ pc' = [pc EXCEPT ![r] = "done"]
    /\ UNCHANGED <<query, stage, outPath, worker, final_filepath, resp, fs,
                   extractorCalls, removed, removeFailed>>
    /\ UNCHANGED svars

\* The server opens the file and sends the body; the client may disconnect
\* first ("aborted"), and a file that is gone by now ends the transfer too
\* ("failed").
SendBody(r, disconnect) ==
    /\ ~LoopBusy
    /\ pc[r] = "sending"
    /\ IF disconnect
       THEN client' = [client EXCEPT ![r].transfer = "aborted"]
       ELSE IF Exists(resp[r].path)
       THEN client' = [client EXCEPT ![r].body = fs[resp[r].path],
                                     ![r].transfer = "sent"]
       ELSE client' = [client EXCEPT ![r].transfer = "failed"]
    /\ pc' = [pc EXCEPT ![r] = "done"]
    /\ UNCHANGED <<query, stage, outPath, worker, final_filepath, resp, fs,
                   extractorCalls, removed, removeFailed>>
    /\ UNCHANGED svars

\* ------------------------------------------------------- tiktok.py: inputs

\* Chunks of an upstream body (iter_content(chunk_size=8192) yields them in
\* order), and the upstream bodies of up to MaxChunks chunks.
Chunks == {"c1", "c2"}

Bodies == UNION {[1..n -> Chunks] : n \in 0..MaxChunks}

\* Statuses the upstream may answer the GET with.
UpstreamStatuses == {200, 204, 206, 404, 500}

\* os.urandom(4).hex()
Tokens == {"0a1b2c3d", "ffffffff"}

LowerChar(c) ==
    CASE c = "H" -> "h" [] c = "T" -> "t" [] c = "P" -> "p" [] c = "S" -> "s"
      [] OTHER -> c

Lower(u) == [i \in 1..Len(u) |-> LowerChar(u[i])]

\* requests.get finds a connection adapter by the URL's prefix, compared in
\* lower case; any other URL raises a RequestException before any connection.
RequestsSupports(u) == UrlWellFormed(Lower(u))

\* The except clauses of get_video_stream: the exception that leaves the
\* generator for one raised in the try block. HTTPException is an Exception
\* and no RequestException, so the last clause catches it too. The detail of
\* the new exception is msg followed by str(e): `cause` and `upstream` are the
\* kind of e and the upstream status that str(e) spells out.
Reraise(exc) ==
    IF exc.kind = "RequestException"
    THEN [code |-> 500, msg |-> "An external request error occurred: ",
          cause |-> exc.kind, upstream |-> exc.upstream]
    ELSE [code |-> 500, msg |-> "An unexpected internal error occurred: ",
          cause |-> exc.kind, upstream |-> exc.upstream]

RequestException == [kind |-> "RequestException", code |-> 0, upstream |-> 0]

\* raise HTTPException(status_code=400, detail=f"... Status: {status_code}")
StatusException(st) == [kind |-> "HTTPException", code |-> 400, upstream |-> st]

NoError == [code |-> 0, msg |-> "", cause |-> "", upstream |-> 0]

\* The chunk the generator yields after it has yielded `n` chunks of `body`.
NextChunkRepeat(body, n) == body[1]

NextChunk(body, n) == body[n + 1]

\* -------------------------------------------------------- tiktok.py: state

NoStreamResp == [status |-> 0, media_type |-> "", disposition |-> <<>>]
NoStreamClient == [status |-> 0, media_type |-> "", disposition |-> <<>>,
                   chunks |-> <<>>, end |-> "none"]
NoUpstream == [status |-> 0, body |-> <<>>]

SInit ==
    /\ s_query = NoQuery
    /\ s_pc = "idle"
    /\ s_resp = NoStreamResp
    /\ gen = "none"
    /\ gen_error = NoError
    /\ upstream = NoUpstream
    /\ pulled = 0
    /\ upstream_open = FALSE
    /\ upstream_gets = 0
    /\ get_calls = 0
    /\ inflight = <<>>
    /\ s_client = NoStreamClient

\* A handler that would issue the upstream GET itself, before it returns.
DownloadTiktokVideoEager(q, token) ==
    /\ s_pc = "idle"
    /\ s_query' = q
    /\ IF ~q.present
       THEN /\ s_client' = [s_client EXCEPT !.status = 422, !.end = "error"]
            /\ s_pc' = "done"
            /\ UNCHANGED <<s_resp, gen, get_calls>>
       ELSE /\ s_resp' = [status |-> 200, media_type |-> "video/mp4",
                          disposition |-> <<"attachment; filename=",
                                            "tiktok_video_", token, ".mp4">>]
            /\ gen' = "unstarted"
            /\ get_calls' = get_calls + 1
            /\ s_pc' = "returned"
            /\ UNCHANGED s_client
    /\ UNCHANGED <<gen_error, upstream, pulled, upstream_open, upstream_gets,
                   inflight>>
    /\ UNCHANGED dvars

\* The route /api/tiktok: a request without the required parameter is answered
\* 422 by the framework and the handler is not called; otherwise
\* download_tiktok_video builds the generator object and the response.
DownloadTiktokVideo(q, token) ==
    /\ s_pc = "idle"
    /\ s_query' = q
    /\ IF ~q.present
       THEN /\ s_client' = [s_client EXCEPT !.status = 422, !.end = "error"]
            /\ s_pc' = "done"
            /\ UNCHANGED <<s_resp, gen>>
       ELSE /\ s_resp' = [status |-> 200, media_type |-> "video/mp4",
                          disposition |-> <<"attachment; filename=",
                                            "tiktok_video_", token, ".mp4">>]
            /\ gen' = "unstarted"
            /\ s_pc' = "returned"
            /\ UNCHANGED s_client
    /\ UNCHANGED <<gen_error, upstream, pulled, upstream_open, upstream_gets,
                   get_calls, inflight>>
    /\ UNCHANGED dvars

\* The server sends the status line and the headers of the response the
\* handler returned, before it advances the body iterator.
StreamStart ==
    /\ s_pc = "returned"
    /\ s_client' = [s_client EXCEPT !.status = s_resp.status,
                                    !.media_type = s_resp.media_type,
                                    !.disposition = s_resp.disposition]
    /\ s_pc' = "started"
    /\ UNCHANGED <<s_query, s_resp, gen, gen_error, upstream, pulled,
                   upstream_open, upstream_gets, get_calls, inflight>>
    /\ UNCHANGED dvars

\* A response object that nothing closed is dropped with the generator's
\* frame: the runtime may finalize it (closing the connection) or not.
Dropped(open, finalized) == open /\ ~finalized

\* The first next() of the generator: lines 33-44 up to the first yield.
\* connects: the GET gets an answer (st, body); otherwise it raises.
GenFirst(connects, st, body, finalized) ==
    /\ s_pc = "started" /\ gen = "unstarted"
    /\ get_calls' = get_calls + 1
    /\ s_pc' = "streaming"
    /\ IF ~RequestsSupports(s_query.value)
       THEN /\ ~connects /\ st = 200 /\ body = <<>> /\ finalized
            /\ gen' = "raised"
            /\ gen_error' = Reraise(RequestException)
            /\ UNCHANGED <<upstream, pulled, upstream_open, upstream_gets, inflight>>
       ELSE /\ upstream_gets' = upstream_gets + 1
            /\ IF ~connects
               THEN /\ st = 200 /\ body = <<>> /\ finalized
                    /\ gen' = "raised"
                    /\ gen_error' = Reraise(RequestException)
                    /\ UNCHANGED <<upstream, pulled, upstream_open, inflight>>
               ELSE /\ upstream' = [status |-> st, body |-> body]
                    /\ IF st # 200
                       THEN /\ gen' = "raised"
                            /\ gen_error' = Reraise(StatusException(st))
                            /\ upstream_open' = Dropped(TRUE, finalized)
                            /\ UNCHANGED <<pulled, inflight>>
                       ELSE IF body = <<>>
                       THEN /\ finalized
                            /\ gen' = "exhausted"
                            /\ upstream_open' = FALSE
                            /\ UNCHANGED <<gen_error, pulled, inflight>>
                       ELSE /\ finalized
                            /\ gen' = "suspended"
                            /\ inflight' = Append(inflight, NextChunk(body, 0))
                            /\ pulled' = 1
                            /\ upstream_open' = TRUE
                            /\ UNCHANGED gen_error
    /\ UNCHANGED <<s_query, s_resp, s_client>>
    /\ UNCHANGED dvars

\* The server sends the chunk the generator yielded.
SendChunk ==
    /\ s_pc = "streaming" /\ inflight # <<>>
    /\ s_client' = [s_client EXCEPT !.chunks = Append(@, Head(inflight))]
    /\ inflight' = Tail(inflight)
    /\ UNCHANGED <<s_query, s_pc, s_resp, gen, gen_error, upstream, pulled,
                   upstream_open, upstream_gets, get_calls>>
    /\ UNCHANGED dvars

\* A later next(): the generator resumes after the yield. neterr: reading the
\* next chunk raises a RequestException (a network error in mid-stream).
GenNext(neterr, finalized) ==
    /\ s_pc = "streaming" /\ gen = "suspended" /\ inflight = <<>>
    /\ IF neterr
       THEN /\ gen' = "raised"
            /\ gen_error' = Reraise(RequestException)
            /\ upstream_open' = Dropped(upstream_open, finalized)
            /\ UNCHANGED <<pulled, inflight>>
       ELSE /\ finalized
            /\ IF pulled < Len(upstream.body)
               THEN /\ inflight' = Append(inflight, NextChunk(upstream.body, pulled))
                    /\ pulled' = pulled + 1
                    /\ UNCHANGED <<gen, gen_error, upstream_open>>
               ELSE /\ gen' = "exhausted"
                    /\ upstream_open' = FALSE
                    /\ UNCHANGED <<gen_error, pulled, inflight>>
    /\ UNCHANGED <<s_query, s_pc, s_resp, upstream, upstream_gets, get_calls,
                   s_client>>
    /\ UNCHANGED dvars

\* The iterator is exhausted and every chunk is sent: the body ends normally.
StreamEnd ==
    /\ s_pc = "streaming" /\ gen = "exhausted" /\ inflight = <<>>
    /\ s_client' = [s_client EXCEPT !.end = "normal"]
    /\ s_pc' = "done"
    /\ UNCHANGED <<s_query, s_resp, gen, gen_error, upstream, pulled,
                   upstream_open, upstream_gets, get_calls, inflight>>
    /\ UNCHANGED dvars

\* A server that would end the body normally after the generator raised.
StreamFailAsEnd ==
    /\ s_pc = "streaming" /\ gen = "raised"
    /\ s_client' = [s_client EXCEPT !.end = "normal"]
    /\ s_pc' = "done"
    /\ UNCHANGED <<s_query, s_resp, gen, gen_error, upstream, pulled,
                   upstream_open, upstream_gets, get_calls, inflight>>
    /\ UNCHANGED dvars

\* An exception left the generator: the response has started, so no error
\* response can be sent any more and the server ends the transfer abnormally.
StreamFail ==
    /\ s_pc = "streaming" /\ gen = "raised"
    /\ s_client' = [s_client EXCEPT !.end = "abnormal"]
    /\ s_pc' = "done"
    /\ UNCHANGED <<s_query, s_resp, gen, gen_error, upstream, pulled,
                   upstream_open, upstream_gets, get_calls, inflight>>
    /\ UNCHANGED dvars

\* The client disconnects while the body is being streamed: the response task
\* is cancelled and the generator is closed. A generator suspended at the
\* yield gets GeneratorExit there, which no except clause catches, and line 47
\* is not reached.
ClientDisconnect(finalized) ==
    /\ s_pc \in {"started", "streaming"}
    /\ gen \in {"unstarted", "suspended"}
    /\ gen' = "closed"
    /\ upstream_open' = Dropped(upstream_open, finalized)
    /\ inflight' = <<>>
    /\ s_client' = [s_client EXCEPT !.end = "aborted"]
    /\ s_pc' = "done"
    /\ UNCHANGED <<s_query, s_resp, gen_error, upstream, pulled, upstream_gets,
                   get_calls>>
    /\ UNCHANGED dvars

vars == <<dvars, svars>>

Init == DInit /\ SInit

\* The download endpoint.
Next ==
    \/ \E r \in Req, q \in Queries : DownloadVideoStart(r, q)
    \/ \E r \in Req, t \in Titles : ExtractorWrite(r, t)
    \/ \E r \in Req, x \in ExcTexts : ExtractorRaise(r, x)
    \/ \E r \in Req : \E p \in AllPaths \cup {NoPath} : PerformDownloadReturn(r, p)
    \/ \E r \in Req, ok \in BOOLEAN : DownloadVideoResume(r, ok)
    \/ \E r \in Req : SendStart(r)
    \/ \E r \in Req, d \in BOOLEAN : SendBody(r, d)

\* The streaming endpoint.
StreamNext ==
    \/ \E q \in Queries, k \in Tokens : DownloadTiktokVideo(q, k)
    \/ StreamStart
    \/ \E c \in BOOLEAN, st \in UpstreamStatuses, b \in Bodies, f \in BOOLEAN :
          GenFirst(c, st, b, f)
    \/ SendChunk
    \/ \E e \in BOOLEAN, f \in BOOLEAN : GenNext(e, f)
    \/ StreamEnd
    \/ StreamFail
    \/ \E f \in BOOLEAN : ClientDisconnect(f)

\* The download endpoint with an extractor that may write outside the
\* directory of the template.
ConfineNext ==
    \/ \E r \in Req, q \in Queries : DownloadVideoStart(r, q)
    \/ \E r \in Req, t \in Titles : ExtractorWrite(r, t)
    \/ \E r \in Req, t \in Titles, d \in {OtherDir, SiblingDir} :
          ExtractorWriteElsewhere(r, t, d)
    \/ \E r \in Req, x \in ExcTexts : ExtractorRaise(r, x)
    \/ \E r \in Req : \E p \in AllPaths \cup {NoPath} : PerformDownloadReturn(r, p)
    \/ \E r \in Req, ok \in BOOLEAN : DownloadVideoResume(r, ok)
    \/ \E r \in Req : SendStart(r)
    \/ \E r \in Req, d \in BOOLEAN : SendBody(r, d)

Spec == Init /\ [][Next]_vars

ConfineSpec == Init /\ [][ConfineNext]_vars

StreamSpec == Init /\ [][StreamNext]_vars

\* ------------------------------------------------------------------ claims

InFlight(r) == pc[r] \in {"extracting", "responding", "sending"}

\* C1: every file the extractor wrote for a request has been deleted exactly
\* once by the request's handler when the request has ended, whether the
\* extraction returned or raised after writing (an os.remove that the system
\* refused aside).
C1_CreatedFileDeletedOnce ==
    \A r \in Req :
        (pc[r] = "done" /\ outPath[r] # NoPath /\ ~removeFailed[r])
            => /\ Len(removed[r]) = 1
               /\ removed[r][1][1] = outPath[r]

\* C2: the handler has deleted the temporary file only when the response body
\* built from it has been fully sent or the transfer has been aborted.
C2_DeleteAfterTransfer ==
    \A r \in Req :
        removed[r] # <<>> => client[r].transfer \in {"sent", "aborted", "failed"}

\* C3: a request with a valid url whose extraction returned the path of an
\* existing file ends (the client reading to the end) with status 200, the
\* attachment header naming the file's basename, and the file's contents as
\* the body.
C3_SuccessServesFile ==
    \A r \in Req :
        (pc[r] = "done" /\ worker[r].kind = "returned"
                        /\ client[r].transfer # "aborted")
            => /\ client[r].status = 200
               /\ client[r].disposition =
                      <<"attachment; filename=", Basename(worker[r].path)>>
               /\ client[r].body = worker[r].content

\* C4: two requests in flight with distinct urls never hold the same temporary
\* path, and no request deletes or serves a file another request wrote.
C4_DistinctPaths ==
    \A r1 \in Req :
        /\ \A r2 \in Req \ {r1} :
              (/\ InFlight(r1) /\ InFlight(r2)
               /\ query[r1].value # query[r2].value
               /\ outPath[r1] # NoPath /\ outPath[r2] # NoPath)
                  => outPath[r1] # outPath[r2]
        /\ \A i \in 1..Len(removed[r1]) : removed[r1][i][2][1] = r1
        /\ client[r1].body # NoFile => client[r1].body[1] = r1

\* C5: a request whose url parameter is absent or empty is answered 400 with
\* the fixed message, perform_download is not called and nothing is deleted.
C5_MissingUrlRejected ==
    \A r \in Req :
        (pc[r] # "idle" /\ (~query[r].present \/ query[r].value = <<>>))
            => /\ pc[r] = "done"
               /\ client[r].status = 400
               /\ client[r].detail = MsgRequired
               /\ extractorCalls[r] = 0
               /\ removed[r] = <<>>
               /\ outPath[r] = NoPath

C5_Witness ==
    \E r1, r2 \in Req :
        /\ pc[r1] = "done" /\ ~query[r1].present /\ client[r1].status = 400
        /\ pc[r2] = "done" /\ query[r2].present /\ query[r2].value = <<>>
        /\ client[r2].detail = MsgRequired

\* C6: a non-empty url that starts with neither http:// nor https:// is
\* answered 400 without a call of perform_download; a url that starts with one
\* of them is never answered 400 and perform_download is called for it.
C6_PrefixValidation ==
    \A r \in Req :
        (pc[r] # "idle" /\ query[r].present /\ query[r].value # <<>>)
            => IF \/ StartsWith(query[r].value, HttpPrefix)
                  \/ StartsWith(query[r].value, HttpsPrefix)
               THEN extractorCalls[r] = 1 /\ client[r].status # 400
               ELSE /\ pc[r] = "done"
                    /\ client[r].status = 400
                    /\ extractorCalls[r] = 0

C6_Witness ==
    \E r1, r2 \in Req :
        /\ pc[r1] = "done" /\ client[r1].status = 400
        /\ query[r1].value = <<"h", "t", "t", "p", ":", "/", "a">>
        /\ StartsWith(query[r2].value, HttpsPrefix)
        /\ extractorCalls[r2] = 1 /\ pc[r2] = "done"

IsPrefix(s, t) == Len(s) <= Len(t) /\ s = SubSeq(t, 1, Len(s))

\* C7: a request to the streaming endpoint whose tiktok_url parameter is
\* absent, or does not start with http:// or https://, never receives a status
\* other than 400, has received 400 when it has ended, and requests.get is
\* never called for it.
C7_StreamRejectsMalformed ==
    (/\ s_pc # "idle"
     /\ \/ ~s_query.present
        \/ ~(\/ StartsWith(s_query.value, HttpPrefix)
             \/ StartsWith(s_query.value, HttpsPrefix)))
        => /\ s_client.status \in {0, 400}
           /\ s_pc = "done" => s_client.status = 400
           /\ get_calls = 0

\* C8: when the upstream's first answer has a status other than 200, the
\* client has received no status 200 and no chunk, and has received status
\* 400 when the request has ended.
C8_UpstreamErrorIs400 ==
    (upstream.status # 0 /\ upstream.status # 200)
        => /\ s_client.status # 200
           /\ s_client.chunks = <<>>
           /\ s_pc = "done" => s_client.status = 400

\* C9: on the streaming endpoint the client has always received a prefix of
\* the upstream body, chunk by chunk in upstream order, the relay holding at
\* most one chunk that it has not sent on; when the upstream answered 200 and
\* the generator ran to exhaustion, the request ends normally with status 200
\* and exactly the upstream body, and a body ends normally in no other case.
C9_RelayIsFaithful ==
    /\ IsPrefix(s_client.chunks, upstream.body)
    /\ IsPrefix(s_client.chunks \o inflight, upstream.body)
    /\ pulled - Len(s_client.chunks) <= 1
    /\ Len(inflight) <= 1
    /\ (s_pc = "done" /\ gen = "exhausted")
          => /\ s_client.end = "normal"
             /\ s_client.status = 200
             /\ s_client.chunks = upstream.body
    /\ s_client.end = "normal"
          => /\ upstream.status = 200
             /\ gen = "exhausted"
             /\ s_client.chunks = upstream.body

C9_Witness ==
    /\ s_pc = "done" /\ s_client.end = "normal"
    /\ Len(upstream.body) = MaxChunks
    /\ upstream.body[1] # upstream.body[2]
    /\ s_client.chunks = upstream.body

\* C10: once the request has ended with the chunk sequence exhausted or with
\* the generator closed early by a client disconnect, the upstream response is
\* not open, and after a disconnect nothing more is read from the upstream.
C10_UpstreamClosed ==
    /\ (s_pc = "done" /\ gen \in {"exhausted", "closed"}) => ~upstream_open
    /\ gen = "closed" => pulled <= Len(s_client.chunks) + 1

\* The details an HTTP error may carry if they are fixed texts.
GenericDetails == {MsgRequired, MsgInvalid, MsgUnexpected, MsgServerError}

\* C11: every HTTP error of either endpoint carries a detail from a fixed set
\* of texts: the detail of an error answered on the download endpoint is one
\* of the fixed messages, and the detail of the HTTPException that leaves the
\* generator of the streaming endpoint holds neither the text of the
\* exception it was made from nor the upstream's status.
C11_GenericDetails ==
    /\ \A r \in Req :
          client[r].status \in {400, 500} => client[r].detail \in GenericDetails
    /\ gen_error.code # 0 => (gen_error.cause = "" /\ gen_error.upstream = 0)

\* C12: a request of the download endpoint whose extractor reported that the
\* URL cannot be resolved (DownloadError) is answered 400 when the handler
\* takes the worker's exception.
C12_UnresolvableIs400 ==
    [][\A r \in Req :
          (/\ pc[r] = "extracting" /\ pc'[r] = "done"
           /\ worker[r].kind = "raised"
           /\ worker[r].text = <<"Failed to download URL. Detail: ", "DownloadError">>)
             => client'[r].status = 400]_vars

\* C16: after an upstream answer with a status other than 200 the generator
\* has yielded no chunk and the exception that left it has status code 400.
C16_Not200Raises400 ==
    (upstream.status # 0 /\ upstream.status # 200)
        => /\ gen = "raised"
           /\ pulled = 0 /\ inflight = <<>> /\ s_client.chunks = <<>>
           /\ gen_error.code = 400

\* C13 (as stated): after a network error in mid-stream the client holds a
\* strict prefix of the upstream chunk sequence.
C13_StrictPrefix ==
    (gen = "raised" /\ pulled >= 1 /\ s_pc = "done")
        => /\ IsPrefix(s_client.chunks, upstream.body)
           /\ Len(s_client.chunks) < Len(upstream.body)

\* C13: when a network error occurs after at least one chunk was yielded, the
\* status sent stays 200, the client holds exactly the chunks yielded before
\* the error, in order (a prefix of the upstream chunk sequence, which is the
\* whole sequence when the error comes after the last chunk), no chunk is
\* sent after the error, and the transfer ends abnormally, never normally.
C13_MidStreamError ==
    (gen = "raised" /\ pulled >= 1)
        => /\ s_client.status = 200
           /\ inflight = <<>>
           /\ s_client.chunks = SubSeq(upstream.body, 1, pulled)
           /\ IsPrefix(s_client.chunks, upstream.body)
           /\ s_client.end \in {"none", "abnormal"}
           /\ (s_pc = "done" => s_client.end = "abnormal")

C13_Witness ==
    /\ s_pc = "done" /\ gen = "raised"
    /\ pulled = 2 /\ Len(upstream.body) = 3
    /\ Len(s_client.chunks) = 2
    /\ s_client.end = "abnormal"

\* C19: the handler issues no upstream GET: while the body iterator has not
\* been advanced no GET was made, at most one is ever made, and for a request
\* with the parameter the response is 200, video/mp4, with an attachment
\* header, and the status and media type the client sees are those, whatever
\* the upstream answers.
C19_HandlerIssuesNoGet ==
    /\ gen = "unstarted" => (get_calls = 0 /\ upstream_gets = 0 /\ upstream.status = 0)
    /\ get_calls <= 1
    /\ (s_query.present /\ s_pc # "idle")
          => /\ s_resp.status = 200
             /\ s_resp.media_type = "video/mp4"
             /\ Len(s_resp.disposition) = 4
             /\ s_resp.disposition[1] = "attachment; filename="
             /\ s_client.status \in {0, 200}
             /\ s_client.media_type \in {"", "video/mp4"}
             /\ (s_client.status = 200 => s_client.disposition = s_resp.disposition)

C19_Witness ==
    /\ s_pc = "done" /\ get_calls = 1
    /\ upstream.status = 404
    /\ s_client.status = 200 /\ s_client.media_type = "video/mp4"

\* C14: a failure of os.remove in the finally block does not change what the
\* client receives: of two requests whose extraction returned their own
\* file and whose client read to the end, one with a failing os.remove and one
\* with a successful one, both get the same status and both or neither get a
\* body.
C14_RemoveFailureInvisible ==
    \A r1, r2 \in Req :
        (/\ pc[r1] = "done" /\ pc[r2] = "done"
         /\ worker[r1].kind = "returned" /\ worker[r2].kind = "returned"
         /\ worker[r1].path = outPath[r1] /\ worker[r2].path = outPath[r2]
         /\ outPath[r1] # outPath[r2]
         /\ client[r1].transfer # "aborted" /\ client[r2].transfer # "aborted"
         /\ removeFailed[r1] /\ ~removeFailed[r2])
            => /\ client[r1].status = client[r2].status
               /\ (client[r1].body = NoFile) = (client[r2].body = NoFile)

InsideTempDir(p) == StartsWith(p, TEMP_DIR \o <<"/">>)

\* C15: every path perform_download returns, and every path the handler
\* serves or deletes, lies inside the temporary directory, also when the
\* extractor wrote and reported a file in another directory or in a sibling
\* directory whose name begins with the temporary directory's name.
C15_PathsConfined ==
    \A r \in Req :
        /\ worker[r].kind = "returned" => InsideTempDir(worker[r].path)
        /\ resp[r].path # NoPath => InsideTempDir(resp[r].path)
        /\ \A i \in 1..Len(removed[r]) : InsideTempDir(removed[r][i][1])

====
